---------------------------- MODULE Spec2Model ----------------------------
(***************************************************************************)
(* Model of the wan22 serverless video-generation handler:                 *)
(*   - src/src/handler.py            one request through handler(job)      *)
(*   - src/src/utils/input_validator.py   the InputValidator functions     *)
(*   - src/src/utils/cleanup_manager.py   the CleanupManager tracker       *)
(*                                                                         *)
(* Four specifications share the module:                                   *)
(*   Spec         one run of handler(job) against the engine               *)
(*   SpecLive     Spec with the handler's own steps taken fairly           *)
(*   SpecPure     the pure functions applied to bounded inputs             *)
(*   SpecCleanup  call sequences on one CleanupManager                     *)
(***************************************************************************)
EXTENDS Integers, Sequences, FiniteSets, TLC

VARIABLES
    \* ---- handler(job): the request and the engine it talks to ----
    pc,               \* position of handler(job) in its code
    task,             \* job_input.get("task", "t2v")
    image_keys,       \* which of image_path/image_url/image_base64 are in job_input
    resolved,         \* input types process_input has been called with
    image_path,       \* the local variable image_path of handler
    engine_up,        \* environment: the engine answers on its base endpoint
    template_ok,      \* environment: /workflows/wan22_api.json can be loaded
    http_attempt,     \* iterations of the HTTP loop that have started
    attempt,          \* loop variable of the websocket connect loop
    connects,         \* number of ws.connect calls made
    sleeps,           \* number of time.sleep(5) calls made
    ws_connected,     \* ws.connect has returned normally
    submits,          \* number of POST /prompt requests sent
    prompt_id,        \* job id returned by queue_prompt
    nrecv,            \* number of ws.recv() calls that returned a message
    out,              \* the last message returned by ws.recv()
    history_fetched,  \* get_history has been called
    videos,           \* what get_videos returned
    result,           \* what handler returned
    error,            \* the exception that ended handler
    inflight,         \* the message the engine has sent and ws.recv() has not returned
    manifest,         \* what get_history returned for the job
    temp_created,     \* the temporary paths the request has created
    exited,           \* the worker process has exited
    r2_env,           \* which of the four R2 settings the environment holds
    expiry_ok,        \* R2_PRESIGNED_EXPIRY, when set, is a number
    presign_ok,       \* generate_presigned_url returned a link
    uploads,          \* number of put_object calls made
    download_url,     \* what upload_output_video returned
    \* ---- pure functions ----
    call,             \* the function applied and its arguments
    ret,              \* its return value
    \* ---- CleanupManager ----
    files_to_cleanup,
    directories_to_cleanup,
    fs,               \* environment: what each resolved path is on disk
    locked,           \* environment: resolved paths whose removal raises
    last_step,        \* the tracker method or file-system event that came last
    cleanup_raised,   \* an exception escaped the last cleanup_all
    cleanup_calls     \* number of cleanup_all calls made

hvars == <<pc, task, image_keys, resolved, image_path, engine_up, template_ok,
           http_attempt, attempt, connects, sleeps, ws_connected, submits,
           prompt_id, nrecv, out, history_fetched, videos, result, error,
           inflight, manifest, temp_created, exited, r2_env, expiry_ok,
           presign_ok, uploads, download_url>>
\* the parts of the request state that only some steps touch
svars == <<inflight>>
mvars == <<manifest>>
tvars == <<temp_created, exited>>
uvars == <<r2_env, expiry_ok, presign_ok, uploads, download_url>>
pvars == <<call, ret>>
cvars == <<files_to_cleanup, directories_to_cleanup, fs, locked, last_step,
           cleanup_raised, cleanup_calls>>
vars == <<hvars, pvars, cvars>>

None == "none"

(***************************************************************************)
(* Bounds                                                                  *)
(***************************************************************************)
\* messages the progress loop may receive in one run
MaxRecv == 3
\* how far beyond the validators' limits the inputs range
Slack == 2
\* largest magnitude of a width/height given to the rounding
MaxDim == 40
\* cleanup_all calls in one run of the tracker
MaxCleanups == 2

(***************************************************************************)
(* handler.py : the engine's messages                                      *)
(***************************************************************************)
JobIds == {"job_a", "job_b"}
NodeIds == {"null", "node_1"}
EventTypes == {"executing", "progress", "status"}

\* what ws.recv() can return: a binary frame (bytes) or a text frame holding
\* a JSON object {type, data: {node, prompt_id}}
BinaryFrame == [frame |-> "binary", type |-> None, node |-> None, prompt_id |-> None]
NoMessage == [frame |-> None, type |-> None, node |-> None, prompt_id |-> None]
TextFrames == [frame : {"text"}, type : EventTypes, node : NodeIds, prompt_id : JobIds]
\* a text frame that json.loads rejects or that lacks 'type', 'data', 'node'
\* or 'prompt_id' where the loop reads them
MalformedText == [frame |-> "text", type |-> "malformed", node |-> None, prompt_id |-> None]
Messages == {BinaryFrame, MalformedText} \cup TextFrames

\* get_videos, lines 107-112: the condition under which the loop breaks
IsSentinelAnyJob(m, id) ==
    /\ m.frame = "text"
    /\ m.type = "executing"
    /\ m.node = "null"

IsSentinel(m, id) ==
    /\ m.frame = "text"
    /\ m.type = "executing"
    /\ m.node = "null"
    /\ m.prompt_id = id

(***************************************************************************)
(* handler.py : handler(job)                                               *)
(***************************************************************************)
ImageKeys == {"image_path", "image_url", "image_base64"}

\* lines 190-197: the if/elif chain picks the first key present
InputTypeOf(keys) ==
    IF "image_path" \in keys THEN "path"
    ELSE IF "image_url" \in keys THEN "url"
    ELSE IF "image_base64" \in keys THEN "base64"
    ELSE None

max_http_attempts == 180
max_attempts == 180 \div 5

HandlerInit ==
    /\ pc = "start"
    /\ task \in {"t2v", "i2v"}
    /\ image_keys \in SUBSET ImageKeys
    /\ resolved = {}
    /\ image_path = None
    /\ engine_up \in BOOLEAN
    /\ template_ok \in BOOLEAN
    /\ http_attempt = 0
    /\ attempt = 0
    /\ connects = 0
    /\ sleeps = 0
    /\ ws_connected = FALSE
    /\ submits = 0
    /\ prompt_id = None
    /\ nrecv = 0
    /\ out = NoMessage
    /\ history_fetched = FALSE
    /\ videos = None
    /\ result = None
    /\ error = None
    /\ inflight = NoMessage
    /\ manifest = None
    /\ temp_created = {}
    /\ exited = FALSE
    /\ r2_env = {}
    /\ expiry_ok = TRUE
    /\ presign_ok = FALSE
    /\ uploads = 0
    /\ download_url = None

Raise(e) ==
    /\ pc' = "failed"
    /\ error' = e

\* line 183 and lines 191-195: temp_dir is task_<uuid>, the file in it is
\* input_image.jpg
TempDir == "task_1"
TempFile == "task_1/input_image.jpg"

\* what process_input (34-48) can leave on disk for an input type:
\*   "path"    nothing, the path is returned as given
\*   "url"     os.makedirs, then wget -O writes the file (41-43, 50-68)
\*   "base64"  b64decode, then os.makedirs, then the file is written (70-82)
\* ok tells whether the call returned or raised
CreatedBy(input_type, ok) ==
    IF input_type = "path" THEN {{}}
    ELSE IF ok THEN {{TempDir, TempFile}}
    ELSE IF input_type = "url" THEN {{TempDir}, {TempDir, TempFile}}
    ELSE {{}, {TempDir}, {TempDir, TempFile}}

\* the file system once the paths of made exist
WithCreated(f, made) ==
    [p \in DOMAIN f |->
        IF p \in made /\ f[p] = "absent"
        THEN IF p = TempDir THEN "dir" ELSE "file"
        ELSE f[p]]

\* lines 185-198: resolve the image source of an i2v request
\* process_input (34-48): "path" returns the path as given; "url" runs wget
\* and "base64" decodes and writes, and either of those may raise
ResolveInput ==
    /\ pc = "start"
    /\ IF task = "i2v"
       THEN IF InputTypeOf(image_keys) = None
            THEN /\ Raise("no_image_source")
                 /\ UNCHANGED <<resolved, image_path, temp_created, fs>>
            ELSE /\ resolved' = resolved \cup {InputTypeOf(image_keys)}
                 /\ \/ /\ image_path' = InputTypeOf(image_keys)
                       /\ pc' = "load_workflow"
                       /\ \E made \in CreatedBy(InputTypeOf(image_keys), TRUE) :
                             /\ temp_created' = made
                             /\ fs' = WithCreated(fs, made)
                       /\ UNCHANGED error
                    \/ /\ InputTypeOf(image_keys) \in {"url", "base64"}
                       /\ Raise("input_error")
                       /\ \E made \in CreatedBy(InputTypeOf(image_keys), FALSE) :
                             /\ temp_created' = made
                             /\ fs' = WithCreated(fs, made)
                       /\ UNCHANGED image_path
       ELSE /\ pc' = "load_workflow"
            /\ UNCHANGED <<resolved, image_path, error, temp_created, fs>>
    /\ UNCHANGED <<task, image_keys, engine_up, template_ok, http_attempt,
                   attempt, connects, sleeps, ws_connected, submits, prompt_id,
                   nrecv, out, history_fetched, videos, result>>
    /\ UNCHANGED <<svars, mvars, exited, uvars, pvars>>
    /\ UNCHANGED <<files_to_cleanup, directories_to_cleanup, locked,
                   last_step, cleanup_raised, cleanup_calls>>

\* lines 200-265: load the template and patch it; open() raises when the
\* template is absent
LoadWorkflow ==
    /\ pc = "load_workflow"
    /\ IF template_ok
       THEN /\ pc' = "http_probe"
            /\ UNCHANGED error
       ELSE Raise("workflow_missing")
    /\ UNCHANGED <<task, image_keys, resolved, image_path, engine_up,
                   template_ok, http_attempt, attempt, connects, sleeps,
                   ws_connected, submits, prompt_id, nrecv, out,
                   history_fetched, videos, result>>
    /\ UNCHANGED <<svars, mvars, tvars, uvars, pvars, cvars>>

\* lines 275-284: the body of the try is a logger.info followed by break; no
\* request is made, so the first iteration always leaves the loop and the
\* except branch is never entered
HttpProbe ==
    /\ pc = "http_probe"
    /\ http_attempt' = http_attempt + 1
    /\ pc' = "ws_connect"
    /\ UNCHANGED <<task, image_keys, resolved, image_path, engine_up,
                   template_ok, attempt, connects, sleeps, ws_connected,
                   submits, prompt_id, nrecv, out, history_fetched, videos,
                   result, error>>
    /\ UNCHANGED <<svars, mvars, tvars, uvars, pvars, cvars>>

\* lines 288-296 with the raise on the last attempt left out
WsConnectNoRaise ==
    /\ pc = "ws_connect"
    /\ connects' = connects + 1
    /\ \/ /\ engine_up
          /\ ws_connected' = TRUE
          /\ pc' = "submit"
       \/ /\ pc' = IF attempt = max_attempts - 1 THEN "submit" ELSE "ws_sleep"
          /\ UNCHANGED ws_connected
    /\ UNCHANGED <<task, image_keys, resolved, image_path, engine_up,
                   template_ok, http_attempt, attempt, sleeps, submits,
                   prompt_id, nrecv, out, history_fetched, videos, result,
                   error>>
    /\ UNCHANGED <<svars, mvars, tvars, uvars, pvars, cvars>>

\* lines 288-292 with the break after a successful connect left out
WsConnectNoBreak ==
    /\ pc = "ws_connect"
    /\ connects' = connects + 1
    /\ \/ /\ engine_up
          /\ ws_connected' = TRUE
          /\ IF attempt = max_attempts - 1
             THEN /\ pc' = "submit"
                  /\ UNCHANGED attempt
             ELSE /\ pc' = "ws_connect"
                  /\ attempt' = attempt + 1
          /\ UNCHANGED error
       \/ /\ IF attempt = max_attempts - 1
             THEN Raise("ws_timeout")
             ELSE /\ pc' = "ws_sleep"
                  /\ UNCHANGED error
          /\ UNCHANGED <<ws_connected, attempt>>
    /\ UNCHANGED <<task, image_keys, resolved, image_path, engine_up,
                   template_ok, http_attempt, sleeps, submits,
                   prompt_id, nrecv, out, history_fetched, videos, result>>
    /\ UNCHANGED <<svars, mvars, tvars, uvars, pvars, cvars>>

\* lines 288-296: one iteration of the connect loop up to the sleep.
\* ws.connect succeeds only against a running engine and may fail anyway.
WsConnect ==
    /\ pc = "ws_connect"
    /\ connects' = connects + 1
    /\ \/ /\ engine_up
          /\ ws_connected' = TRUE
          /\ pc' = "submit"
          /\ UNCHANGED error
       \/ /\ IF attempt = max_attempts - 1
             THEN Raise("ws_timeout")
             ELSE /\ pc' = "ws_sleep"
                  /\ UNCHANGED error
          /\ UNCHANGED ws_connected
    /\ UNCHANGED <<task, image_keys, resolved, image_path, engine_up,
                   template_ok, http_attempt, attempt, sleeps, submits,
                   prompt_id, nrecv, out, history_fetched, videos, result>>
    /\ UNCHANGED <<svars, mvars, tvars, uvars, pvars, cvars>>

\* line 297 and the loop header: sleep, then the next attempt
WsSleep ==
    /\ pc = "ws_sleep"
    /\ sleeps' = sleeps + 1
    /\ attempt' = attempt + 1
    /\ pc' = "ws_connect"
    /\ UNCHANGED <<task, image_keys, resolved, image_path, engine_up,
                   template_ok, http_attempt, connects, ws_connected, submits,
                   prompt_id, nrecv, out, history_fetched, videos, result,
                   error>>
    /\ UNCHANGED <<svars, mvars, tvars, uvars, pvars, cvars>>

\* line 102 (queue_prompt, 84-91): POST the graph; the engine answers with a
\* job id, or urlopen raises
QueuePrompt ==
    /\ pc = "submit"
    /\ submits' = submits + 1
    /\ \/ /\ \E id \in JobIds : prompt_id' = id
          /\ pc' = "progress"
          /\ UNCHANGED error
       \/ /\ Raise("submit_error")
          /\ UNCHANGED prompt_id
    /\ UNCHANGED <<task, image_keys, resolved, image_path, engine_up,
                   template_ok, http_attempt, attempt, connects, sleeps,
                   ws_connected, nrecv, out, history_fetched, videos, result>>
    /\ UNCHANGED <<svars, mvars, tvars, uvars, pvars, cvars>>

\* the engine sends a message on the stream: progress of this job or of
\* another client's, in any order
EngineEmit ==
    /\ pc = "progress"
    /\ inflight = NoMessage
    /\ nrecv < MaxRecv
    /\ \E m \in Messages : inflight' = m
    /\ UNCHANGED <<pc, task, image_keys, resolved, image_path, engine_up,
                   template_ok, http_attempt, attempt, connects, sleeps,
                   ws_connected, submits, prompt_id, nrecv, out,
                   history_fetched, videos, result, error>>
    /\ UNCHANGED <<mvars, tvars, uvars, pvars, cvars>>

\* lines 105-114 with a loop that never breaks
RecvNoBreak ==
    /\ pc = "progress"
    /\ inflight # NoMessage
    /\ out' = inflight
    /\ inflight' = NoMessage
    /\ IF inflight = MalformedText
       THEN Raise("message_error")
       ELSE UNCHANGED <<pc, error>>
    /\ nrecv' = nrecv + 1
    /\ UNCHANGED <<task, image_keys, resolved, image_path, engine_up,
                   template_ok, http_attempt, attempt, connects, sleeps,
                   ws_connected, submits, prompt_id, history_fetched, videos,
                   result>>
    /\ UNCHANGED <<mvars, tvars, uvars, pvars, cvars>>

\* lines 105-114: one iteration of the progress loop: ws.recv() blocks until
\* a message is there; json.loads or a missing key raises on a malformed
\* text frame
Recv ==
    /\ pc = "progress"
    /\ inflight # NoMessage
    /\ out' = inflight
    /\ inflight' = NoMessage
    /\ IF inflight = MalformedText
       THEN Raise("message_error")
       ELSE /\ pc' = IF IsSentinel(inflight, prompt_id) THEN "history" ELSE "progress"
            /\ UNCHANGED error
    /\ nrecv' = nrecv + 1
    /\ UNCHANGED <<task, image_keys, resolved, image_path, engine_up,
                   template_ok, http_attempt, attempt, connects, sleeps,
                   ws_connected, submits, prompt_id, history_fetched, videos,
                   result>>
    /\ UNCHANGED <<mvars, tvars, uvars, pvars, cvars>>

\* line 106 with a handler that reconnects when ws.recv() raises
RecvErrorReconnect ==
    /\ pc = "progress"
    /\ pc' = "ws_connect"
    /\ attempt' = 0
    /\ UNCHANGED <<task, image_keys, resolved, image_path, engine_up,
                   template_ok, http_attempt, connects, sleeps, ws_connected,
                   submits, prompt_id, nrecv, out, history_fetched, videos,
                   result, error>>
    /\ UNCHANGED <<svars, mvars, tvars, uvars, pvars, cvars>>

\* line 106: ws.recv() raises (connection closed, timeout); nothing catches it
RecvError ==
    /\ pc = "progress"
    /\ Raise("stream_error")
    /\ UNCHANGED <<task, image_keys, resolved, image_path, engine_up,
                   template_ok, http_attempt, attempt, connects, sleeps,
                   ws_connected, submits, prompt_id, nrecv, out,
                   history_fetched, videos, result>>
    /\ UNCHANGED <<svars, mvars, tvars, uvars, pvars, cvars>>

\* what GET /history/<id> can hold for the job:
\*   "video"       an output node lists a video under 'gifs'
\*   "no_gifs"     the output nodes have no 'gifs'
\*   "empty_gifs"  'gifs' is an empty list
\*   "no_nodes"    'outputs' is empty
\*   "no_outputs"  the job or its 'outputs' is not in the answer (KeyError)
Manifests == {"video", "no_gifs", "empty_gifs", "no_nodes", "no_outputs"}

\* lines 117-126: whether some output node ends up with a non-empty list
VideosOf(m) == IF m = "video" THEN "video" ELSE "no_video"

\* lines 116-128: fetch the manifest and collect the videos of every output
\* node; the lookup may raise, and so does a manifest without the job's
\* 'outputs'
GetHistory ==
    /\ pc = "history"
    /\ history_fetched' = TRUE
    /\ \/ /\ \E m \in Manifests :
                /\ manifest' = m
                /\ IF m = "no_outputs"
                   THEN /\ Raise("missing_output_fields")
                        /\ UNCHANGED videos
                   ELSE /\ videos' = VideosOf(m)
                        /\ pc' = "return"
                        /\ UNCHANGED error
       \/ /\ Raise("history_error")
          /\ UNCHANGED <<videos, manifest>>
    /\ UNCHANGED <<task, image_keys, resolved, image_path, engine_up,
                   template_ok, http_attempt, attempt, connects, sleeps,
                   ws_connected, submits, prompt_id, nrecv, out, result>>
    /\ UNCHANGED <<svars, tvars, uvars, pvars, cvars>>

\* lines 139-142: the settings upload_output_video needs
R2Keys == {"R2_BUCKET_NAME", "R2_ENDPOINT_URL", "R2_ACCESS_KEY_ID",
           "R2_SECRET_ACCESS_KEY"}

\* lines 135-176: upload_output_video with the environment env, expiry
\* setting exp, put_object outcome put and link outcome link
\*   line 144      int() of the expiry raises on a value that is no number
\*   lines 146-148 a missing setting: no upload, None is returned
\*   line 164      put_object, which may raise
\*   lines 166-176 the presigned link, or the direct URL when that raises
Upload(env, exp, put, link) ==
    /\ r2_env' = env
    /\ expiry_ok' = exp
    /\ IF ~exp
       THEN /\ Raise("expiry_not_a_number")
            /\ UNCHANGED <<uploads, presign_ok, download_url, result>>
       ELSE IF env # R2Keys
       THEN /\ download_url' = None
            /\ result' = "success"
            /\ pc' = "done"
            /\ UNCHANGED <<uploads, presign_ok, error>>
       ELSE /\ uploads' = uploads + 1
            /\ IF ~put
               THEN /\ Raise("upload_error")
                    /\ UNCHANGED <<presign_ok, download_url, result>>
               ELSE /\ presign_ok' = link
                    /\ download_url' = IF link THEN "presigned_url" ELSE "direct_url"
                    /\ result' = "success"
                    /\ pc' = "done"
                    /\ UNCHANGED error

\* lines 301-325 with the first output node taken whether or not it holds a
\* video
ReturnFirstNode ==
    /\ pc = "return"
    /\ \E env \in SUBSET R2Keys, exp \in BOOLEAN, put \in BOOLEAN, link \in BOOLEAN :
          Upload(env, exp, put, link)
    /\ UNCHANGED <<task, image_keys, resolved, image_path, engine_up,
                   template_ok, http_attempt, attempt, connects, sleeps,
                   ws_connected, submits, prompt_id, nrecv, out,
                   history_fetched, videos>>
    /\ UNCHANGED <<svars, mvars, tvars, pvars, cvars>>

\* lines 301-325: close the stream; the first node with a video is uploaded
\* and returned, and without one the error result is returned
Return ==
    /\ pc = "return"
    /\ IF videos = "video"
       THEN \E env \in SUBSET R2Keys, exp \in BOOLEAN, put \in BOOLEAN, link \in BOOLEAN :
               Upload(env, exp, put, link)
       ELSE /\ result' = "error_not_found"
            /\ pc' = "done"
            /\ UNCHANGED <<error, uvars>>
    /\ UNCHANGED <<task, image_keys, resolved, image_path, engine_up,
                   template_ok, http_attempt, attempt, connects, sleeps,
                   ws_connected, submits, prompt_id, nrecv, out,
                   history_fetched, videos>>
    /\ UNCHANGED <<svars, mvars, tvars, pvars, cvars>>

HandlerNext ==
    \/ ResolveInput
    \/ LoadWorkflow
    \/ HttpProbe
    \/ WsConnect
    \/ WsSleep
    \/ QueuePrompt
    \/ EngineEmit
    \/ Recv
    \/ RecvError
    \/ GetHistory
    \/ Return

(***************************************************************************)
(* Values the loosely typed functions are given                            *)
(*   [kind |-> "num", num, den]  the number num/den: a Python int when     *)
(*                               den = 1, a Python float when den = 2      *)
(*   Bad                         a value int() and float() reject          *)
(*                               (None, a non-numeric string)              *)
(***************************************************************************)
Bad == [kind |-> "bad", num |-> 0, den |-> 1]
NoArg == [kind |-> "absent", num |-> 0, den |-> 1]
PyInt(n) == [kind |-> "num", num |-> n, den |-> 1]
PyFloat2(n) == [kind |-> "num", num |-> n, den |-> 2]

\* the ints and the floats (in steps of one half) between lo and hi
Numbers(lo, hi) ==
    {PyInt(n) : n \in lo..hi} \cup {PyFloat2(n) : n \in (2 * lo)..(2 * hi)}

\* int(x) of Python: truncation toward zero
int(x) ==
    IF x.num >= 0 THEN x.num \div x.den ELSE -((-x.num) \div x.den)

\* round(num/d) of Python 3: to the nearest integer, ties to the even one
round(num, d) ==
    LET q == num \div d
        r == num % d
    IN  IF 2 * r < d THEN q
        ELSE IF 2 * r > d THEN q + 1
        ELSE IF q % 2 = 0 THEN q ELSE q + 1

(***************************************************************************)
(* handler.py : to_nearest_multiple_of_16                                  *)
(***************************************************************************)
Raised == [raised |-> TRUE]

\* lines 23-32 without the floor at 16
to_nearest_multiple_of_16_unclamped(value) ==
    IF value.kind # "num"
    THEN Raised
    ELSE round(value.num, 16 * value.den) * 16

\* lines 23-32: float(value), round(value / 16.0) * 16, at least 16
to_nearest_multiple_of_16(value) ==
    IF value.kind # "num"
    THEN Raised
    ELSE LET adjusted == round(value.num, 16 * value.den) * 16
         IN  IF adjusted < 16 THEN 16 ELSE adjusted

(***************************************************************************)
(* input_validator.py : InputValidator                                     *)
(***************************************************************************)
\* line 14 and the like: result = {'valid': False, 'errors': [], 'warnings': []}
NewResult == [valid |-> FALSE, errors |-> <<>>, warnings |-> <<>>]

Error(res, e) == [res EXCEPT !.errors = Append(@, e)]
Warning(res, w) == [res EXCEPT !.warnings = Append(@, w)]

\* lines 47-71 as a lenient policy: an unsupported pair becomes 1280x704
validate_resolution_coercing(width, height) ==
    IF width.kind # "num" \/ height.kind # "num"
    THEN Error(NewResult, "Width and height must be integers")
    ELSE LET width_int == int(width)
             height_int == int(height)
         IN  IF <<width_int, height_int>> \notin {<<1280, 704>>, <<704, 1280>>}
             THEN [valid |-> TRUE, errors |-> <<>>,
                   warnings |-> <<"resolution is not supported">>,
                   width |-> 1280, height |-> 704]
             ELSE [valid |-> TRUE, errors |-> <<>>, warnings |-> <<>>,
                   width |-> width_int, height |-> height_int]

\* lines 47-71
validate_resolution(width, height) ==
    IF width.kind # "num" \/ height.kind # "num"
    THEN Error(NewResult, "Width and height must be integers")
    ELSE LET width_int == int(width)
             height_int == int(height)
         IN  IF <<width_int, height_int>> \notin {<<1280, 704>>, <<704, 1280>>}
             THEN Error(NewResult, "resolution is not supported")
             ELSE [valid |-> TRUE, errors |-> <<>>, warnings |-> <<>>,
                   width |-> width_int, height |-> height_int]

\* lines 73-101 with the upper limit tested by >=
validate_num_frames_exclusive(num_frames) ==
    IF num_frames.kind # "num"
    THEN Error(NewResult, "num_frames must be an integer")
    ELSE LET num_frames_int == int(num_frames)
         IN  IF num_frames_int < 1
             THEN Error(NewResult, "num_frames must be at least 1")
             ELSE IF num_frames_int >= 300
             THEN Error(NewResult, "num_frames cannot exceed 300")
             ELSE [valid |-> TRUE, errors |-> <<>>, warnings |-> <<>>,
                   value |-> num_frames_int]

\* lines 73-101; the duration is num_frames_int / 24
validate_num_frames(num_frames) ==
    IF num_frames.kind # "num"
    THEN Error(NewResult, "num_frames must be an integer")
    ELSE LET num_frames_int == int(num_frames)
         IN  IF num_frames_int < 1
             THEN Error(NewResult, "num_frames must be at least 1")
             ELSE IF num_frames_int > 300
             THEN Error(NewResult, "num_frames cannot exceed 300")
             ELSE LET res == IF num_frames_int > 30 * 24
                             THEN Warning(NewResult, "long video")
                             ELSE NewResult
                  IN  [valid |-> TRUE, errors |-> res.errors,
                       warnings |-> res.warnings, value |-> num_frames_int]

\* lines 103-129
validate_steps(steps) ==
    IF steps.kind # "num"
    THEN Error(NewResult, "steps must be an integer")
    ELSE LET steps_int == int(steps)
         IN  IF steps_int < 1
             THEN Error(NewResult, "steps must be at least 1")
             ELSE IF steps_int > 50
             THEN Error(NewResult, "steps cannot exceed 50")
             ELSE LET low == IF steps_int < 5
                             THEN Warning(NewResult, "very low step count")
                             ELSE NewResult
                      res == IF steps_int > 20
                             THEN Warning(low, "high step count")
                             ELSE low
                  IN  [valid |-> TRUE, errors |-> res.errors,
                       warnings |-> res.warnings, value |-> steps_int]

(***************************************************************************)
(* handler.py : the parameters applied to the workflow (lines 205-265)     *)
(*   a graph is a function from <<node id, input name>> to the value of    *)
(*   that input; cfg and the LoRA strengths are counted in tenths          *)
(***************************************************************************)
\* an optional entry of a dict: the key is missing, or it holds a value of S
Opt(S) ==
    {[present |-> FALSE, v |-> CHOOSE x \in S : TRUE]} \cup [present : {TRUE}, v : S]
Some(x) == [present |-> TRUE, v |-> x]
Missing(x) == [present |-> FALSE, v |-> x]

\* dict.get(key, default)
Get(entry, default) == IF entry.present THEN entry.v ELSE default

\* prompt[node]["inputs"][name] = value
Put(graph, node, name, value) ==
    [k \in DOMAIN graph \cup {<<node, name>>} |->
        IF k = <<node, name>> THEN value ELSE graph[k]]

\* "834" in prompt
HasNode(graph, node) == \E k \in DOMAIN graph : k[1] = node

LoraSlots == 1..4
LoraField(i) == <<"lora_1", "lora_2", "lora_3", "lora_4">>[i]
StrengthField(i) == <<"strength_1", "strength_2", "strength_3", "strength_4">>[i]
high_lora_node_id == "279"
low_lora_node_id == "553"

\* /workflows/wan22_api.json is not part of the repository: the templates
\* tried hold the handler's own defaults or values of their own, and have
\* the node "834" or lack it
TemplateKinds == {"handler_defaults", "own_values"}
TemplateWith834(kind) ==
    LET own == kind = "own_values"
        fixed == (<<"244", "image">> :> "example.png")
                 @@ (<<"541", "num_frames">> :> IF own THEN 121 ELSE 81)
                 @@ (<<"135", "positive_prompt">> :>
                        IF own THEN "template prompt" ELSE "A beautiful video")
                 @@ (<<"220", "seed">> :> IF own THEN 1 ELSE 42)
                 @@ (<<"540", "seed">> :> IF own THEN 2 ELSE 42)
                 @@ (<<"540", "cfg">> :> IF own THEN 10 ELSE 20)
                 @@ (<<"540", "sampler_name">> :> "euler")
                 @@ (<<"235", "value">> :> IF own THEN 1280 ELSE 480)
                 @@ (<<"236", "value">> :> IF own THEN 704 ELSE 832)
                 @@ (<<"498", "context_overlap">> :> IF own THEN 16 ELSE 48)
                 @@ (<<"834", "steps">> :> IF own THEN 20 ELSE 10)
                 @@ (<<"829", "step">> :> IF own THEN 12 ELSE 6)
        loras == [k \in {high_lora_node_id, low_lora_node_id}
                          \X {LoraField(i) : i \in LoraSlots} |-> "none"]
        strengths == [k \in {high_lora_node_id, low_lora_node_id}
                          \X {StrengthField(i) : i \in LoraSlots} |-> 10]
    IN  fixed @@ loras @@ strengths
TemplateWithout834(kind) ==
    LET full == TemplateWith834(kind)
    IN  [k \in DOMAIN full \ {<<"834", "steps">>} |-> full[k]]
Templates ==
    {TemplateWith834(kind) : kind \in TemplateKinds}
        \cup {TemplateWithout834(kind) : kind \in TemplateKinds}

\* the entries of job_input["lora_pairs"]: "high"/"low" name an adapter or
\* are missing, the weights are given or missing
PairBoth ==
    [high |-> Some("high_a.safetensors"), low |-> Some("low_a.safetensors"),
     high_weight |-> Some(8), low_weight |-> Missing(0)]
PairLowOnly ==
    [high |-> Missing("none"), low |-> Some("low_b.safetensors"),
     high_weight |-> Missing(0), low_weight |-> Some(5)]
LoraLists ==
    {<<>>, <<PairBoth>>, <<PairBoth, PairLowOnly>>,
     <<PairLowOnly, PairBoth, PairBoth, PairBoth, PairBoth>>}

\* job_input as the parameter code reads it; "image" is the resolved
\* image_path of an i2v request
JobInputs ==
    [image : Opt({"/tmp/request/input_image.jpg"}),
     prompt : Opt({"a cat on a skateboard"}),
     num_frames : Opt({33}),
     steps : Opt({9}),
     seed : Opt({7}),
     cfg : Opt({35}),
     width : Opt({PyInt(100)}),
     height : Opt({PyInt(50)}),
     context_overlap : Opt({32}),
     lora_pairs : Opt(LoraLists)]

\* lines 249-265: one pass of the loop over lora_pairs[:4]
RECURSIVE ApplyLoraPairs(_, _, _)
ApplyLoraPairs(graph, pairs, i) ==
    IF i > Len(pairs) \/ i > 4
    THEN graph
    ELSE LET lora_pair == pairs[i]
             lora_high_weight == Get(lora_pair.high_weight, 10)
             lora_low_weight == Get(lora_pair.low_weight, 10)
             g1 == IF lora_pair.high.present
                   THEN Put(Put(graph, high_lora_node_id, LoraField(i),
                                lora_pair.high.v),
                            high_lora_node_id, StrengthField(i), lora_high_weight)
                   ELSE graph
             g2 == IF lora_pair.low.present
                   THEN Put(Put(g1, low_lora_node_id, LoraField(i),
                                lora_pair.low.v),
                            low_lora_node_id, StrengthField(i), lora_low_weight)
                   ELSE g1
         IN  ApplyLoraPairs(g2, pairs, i + 1)

\* int(steps * 0.6) for an int steps
LowSteps(steps) == (steps * 6) \div 10

\* lines 205-265 writing a node input only when the request holds the field
ApplyParametersSuppliedOnly(workflow, job_input) ==
    LET g1 == IF job_input.image.present
              THEN Put(workflow, "244", "image", job_input.image.v)
              ELSE workflow
        g2 == IF job_input.num_frames.present
              THEN Put(g1, "541", "num_frames", job_input.num_frames.v)
              ELSE g1
        g3 == IF job_input.prompt.present
              THEN Put(g2, "135", "positive_prompt", job_input.prompt.v)
              ELSE g2
        g4 == IF job_input.seed.present
              THEN Put(Put(g3, "220", "seed", job_input.seed.v),
                       "540", "seed", job_input.seed.v)
              ELSE g3
        g5 == IF job_input.cfg.present
              THEN Put(g4, "540", "cfg", job_input.cfg.v)
              ELSE g4
        g6 == IF job_input.width.present
              THEN Put(g5, "235", "value",
                       to_nearest_multiple_of_16(job_input.width.v))
              ELSE g5
        g7 == IF job_input.height.present
              THEN Put(g6, "236", "value",
                       to_nearest_multiple_of_16(job_input.height.v))
              ELSE g6
        g8 == IF job_input.context_overlap.present
              THEN Put(g7, "498", "context_overlap", job_input.context_overlap.v)
              ELSE g7
        g9 == IF HasNode(g8, "834") /\ job_input.steps.present
              THEN Put(Put(g8, "834", "steps", job_input.steps.v),
                       "829", "step", LowSteps(job_input.steps.v))
              ELSE g8
        lora_pairs == Get(job_input.lora_pairs, <<>>)
    IN  IF lora_pairs # <<>> THEN ApplyLoraPairs(g9, lora_pairs, 1) ELSE g9

\* lines 205-265: every parameter is read with job_input.get(key, default)
\* and written; only the image, the steps and the LoRA inputs are guarded
ApplyParameters(workflow, job_input) ==
    LET length == Get(job_input.num_frames, 81)
        steps == Get(job_input.steps, 10)
        seed == Get(job_input.seed, 42)
        cfg == Get(job_input.cfg, 20)
        g1 == IF job_input.image.present
              THEN Put(workflow, "244", "image", job_input.image.v)
              ELSE workflow
        g2 == Put(g1, "541", "num_frames", length)
        g3 == Put(g2, "135", "positive_prompt",
                  Get(job_input.prompt, "A beautiful video"))
        g4 == Put(Put(g3, "220", "seed", seed), "540", "seed", seed)
        g5 == Put(g4, "540", "cfg", cfg)
        original_width == Get(job_input.width, PyInt(480))
        original_height == Get(job_input.height, PyInt(832))
        adjusted_width == to_nearest_multiple_of_16(original_width)
        adjusted_height == to_nearest_multiple_of_16(original_height)
        g6 == Put(Put(g5, "235", "value", adjusted_width),
                  "236", "value", adjusted_height)
        g7 == Put(g6, "498", "context_overlap",
                  Get(job_input.context_overlap, 48))
        g8 == IF HasNode(g7, "834")
              THEN Put(Put(g7, "834", "steps", steps),
                       "829", "step", LowSteps(steps))
              ELSE g7
        lora_pairs == Get(job_input.lora_pairs, <<>>)
    IN  IF lora_pairs # <<>> THEN ApplyLoraPairs(g8, lora_pairs, 1) ELSE g8

(***************************************************************************)
(* The pure functions applied to one input each                            *)
(***************************************************************************)
NoCall == [fn |-> None, a |-> NoArg, b |-> NoArg]
NotCalled == [called |-> FALSE]

FrameInputs == Numbers(-Slack, 300 + Slack) \cup {Bad}
StepInputs == Numbers(-Slack, 50 + Slack) \cup {Bad}
ResolutionInputs ==
    {PyInt(n) : n \in {480, 704, 705, 832, 1279, 1280}}
        \cup {PyFloat2(1408), PyFloat2(2561), Bad}
DimInputs == Numbers(-MaxDim, MaxDim) \cup {Bad}

Calls ==
    [fn : {"validate_num_frames"}, a : FrameInputs, b : {NoArg}]
        \cup [fn : {"validate_steps"}, a : StepInputs, b : {NoArg}]
        \cup [fn : {"validate_resolution"}, a : ResolutionInputs, b : ResolutionInputs]
        \cup [fn : {"adjust_resolution"}, a : DimInputs, b : DimInputs]
        \cup [fn : {"apply_parameters"}, a : JobInputs,
               b : {[graph |-> t] : t \in Templates}]

PureInit ==
    /\ call \in Calls
    /\ ret = NotCalled

ValidateNumFrames ==
    /\ call.fn = "validate_num_frames"
    /\ ret = NotCalled
    /\ ret' = validate_num_frames(call.a)
    /\ UNCHANGED call
    /\ UNCHANGED <<hvars, cvars>>

ValidateSteps ==
    /\ call.fn = "validate_steps"
    /\ ret = NotCalled
    /\ ret' = validate_steps(call.a)
    /\ UNCHANGED call
    /\ UNCHANGED <<hvars, cvars>>

ValidateResolution ==
    /\ call.fn = "validate_resolution"
    /\ ret = NotCalled
    /\ ret' = validate_resolution(call.a, call.b)
    /\ UNCHANGED call
    /\ UNCHANGED <<hvars, cvars>>

\* handler, lines 223-234: both dimensions are rounded independently; a
\* value that is not numeric ends the request with an exception
AdjustResolution ==
    /\ call.fn = "adjust_resolution"
    /\ ret = NotCalled
    /\ LET adjusted_width == to_nearest_multiple_of_16(call.a)
           adjusted_height == to_nearest_multiple_of_16(call.b)
       IN  ret' = IF call.a.kind # "num" \/ call.b.kind # "num"
                  THEN Raised
                  ELSE [adjusted_width |-> adjusted_width,
                        adjusted_height |-> adjusted_height]
    /\ UNCHANGED call
    /\ UNCHANGED <<hvars, cvars>>

\* handler, lines 205-265: the loaded workflow after the parameters are applied
PatchGraph ==
    /\ call.fn = "apply_parameters"
    /\ ret = NotCalled
    /\ ret' = [graph |-> ApplyParameters(call.b.graph, call.a)]
    /\ UNCHANGED call
    /\ UNCHANGED <<hvars, cvars>>

PureNext ==
    \/ PatchGraph
    \/ ValidateNumFrames
    \/ ValidateSteps
    \/ ValidateResolution
    \/ AdjustResolution

(***************************************************************************)
(* cleanup_manager.py : CleanupManager                                     *)
(***************************************************************************)
\* the paths the methods are called with; two of them name the same file
PathArgs == {"task_1/input_image.jpg", "./task_1/input_image.jpg", "task_1"}

\* Path.resolve(): the absolute, normalised path
resolve(p) ==
    IF p = "./task_1/input_image.jpg" THEN "task_1/input_image.jpg" ELSE p

ResolvedPaths == {resolve(p) : p \in PathArgs}

\* Path.exists()
exists(f, p) == f[resolve(p)] # "absent"

\* lines 77-89 with the else branch returning False
cleanup_file_strict(f, p) ==
    IF f[p] = "file" THEN p \notin locked ELSE FALSE

\* lines 77-89, the value _cleanup_file returns: unlink raises on a locked
\* path, the exception is caught and False returned; a path that is no file
\* counts as cleaned
cleanup_file(f, p) ==
    IF f[p] = "file" THEN p \notin locked ELSE TRUE

\* lines 63-75, the value _cleanup_directory returns
cleanup_directory(f, p) ==
    IF f[p] = "dir" THEN p \notin locked ELSE TRUE

\* the file system after _cleanup_file ran on every path of ps
AfterFiles(f, ps) ==
    [p \in ResolvedPaths |->
        IF p \in ps /\ f[p] = "file" /\ p \notin locked THEN "absent" ELSE f[p]]

\* the file system after _cleanup_directory ran on every path of ps
AfterDirectories(f, ps) ==
    [p \in ResolvedPaths |->
        IF p \in ps /\ f[p] = "dir" /\ p \notin locked THEN "absent" ELSE f[p]]

\* lines 11-18
CleanupInit ==
    /\ files_to_cleanup = {}
    /\ directories_to_cleanup = {}
    /\ fs = [p \in ResolvedPaths |-> "absent"]
    /\ locked = {}
    /\ last_step = "init"
    /\ cleanup_raised = FALSE
    /\ cleanup_calls = 0

\* lines 20-23
add_directory(directory_path) ==
    /\ directories_to_cleanup' =
           IF exists(fs, directory_path)
           THEN directories_to_cleanup \cup {resolve(directory_path)}
           ELSE directories_to_cleanup
    /\ last_step' = "add_directory"
    /\ UNCHANGED <<files_to_cleanup, fs, locked, cleanup_raised, cleanup_calls>>
    /\ UNCHANGED <<hvars, pvars>>

\* lines 25-28
add_file(file_path) ==
    /\ files_to_cleanup' =
           IF exists(fs, file_path)
           THEN files_to_cleanup \cup {resolve(file_path)}
           ELSE files_to_cleanup
    /\ last_step' = "add_file"
    /\ UNCHANGED <<directories_to_cleanup, fs, locked, cleanup_raised, cleanup_calls>>
    /\ UNCHANGED <<hvars, pvars>>

\* lines 30-33
remove_directory(directory_path) ==
    /\ directories_to_cleanup' = directories_to_cleanup \ {resolve(directory_path)}
    /\ last_step' = "remove_directory"
    /\ UNCHANGED <<files_to_cleanup, fs, locked, cleanup_raised, cleanup_calls>>
    /\ UNCHANGED <<hvars, pvars>>

\* lines 35-38
remove_file(file_path) ==
    /\ files_to_cleanup' = files_to_cleanup \ {resolve(file_path)}
    /\ last_step' = "remove_file"
    /\ UNCHANGED <<directories_to_cleanup, fs, locked, cleanup_raised, cleanup_calls>>
    /\ UNCHANGED <<hvars, pvars>>

\* lines 40-55: every registered file, then every registered directory; an
\* entry is discarded when its cleanup returned True
cleanup_all ==
    /\ cleanup_calls < MaxCleanups
    /\ LET fs1 == AfterFiles(fs, files_to_cleanup)
       IN  /\ files_to_cleanup' =
                  {p \in files_to_cleanup : ~cleanup_file(fs, p)}
           /\ directories_to_cleanup' =
                  {p \in directories_to_cleanup : ~cleanup_directory(fs1, p)}
           /\ fs' = AfterDirectories(fs1, directories_to_cleanup)
    /\ cleanup_raised' = FALSE
    /\ cleanup_calls' = cleanup_calls + 1
    /\ last_step' = "cleanup_all"
    /\ UNCHANGED locked
    /\ UNCHANGED <<hvars, pvars>>

\* environment: a file or a directory appears at a path
Create(p, kind) ==
    /\ fs[p] = "absent"
    /\ fs' = [fs EXCEPT ![p] = kind]
    /\ last_step' = "create"
    /\ UNCHANGED <<files_to_cleanup, directories_to_cleanup, locked,
                   cleanup_raised, cleanup_calls>>
    /\ UNCHANGED <<hvars, pvars>>

\* environment: something else removes a path
ExternalRemove(p) ==
    /\ fs[p] # "absent"
    /\ fs' = [fs EXCEPT ![p] = "absent"]
    /\ last_step' = "external_remove"
    /\ UNCHANGED <<files_to_cleanup, directories_to_cleanup, locked,
                   cleanup_raised, cleanup_calls>>
    /\ UNCHANGED <<hvars, pvars>>

\* environment: removing a path starts or stops failing (permissions, a
\* busy mount)
SetLocked(p, on) ==
    /\ (p \in locked) # on
    /\ locked' = IF on THEN locked \cup {p} ELSE locked \ {p}
    /\ last_step' = "set_locked"
    /\ UNCHANGED <<files_to_cleanup, directories_to_cleanup, fs,
                   cleanup_raised, cleanup_calls>>
    /\ UNCHANGED <<hvars, pvars>>

CleanupNext ==
    \/ \E p \in PathArgs : add_directory(p)
    \/ \E p \in PathArgs : add_file(p)
    \/ \E p \in PathArgs : remove_directory(p)
    \/ \E p \in PathArgs : remove_file(p)
    \/ cleanup_all
    \/ \E p \in ResolvedPaths, kind \in {"file", "dir"} : Create(p, kind)
    \/ \E p \in ResolvedPaths : ExternalRemove(p)
    \/ \E p \in ResolvedPaths, on \in BOOLEAN : SetLocked(p, on)

(***************************************************************************)
(* The worker process                                                      *)
(***************************************************************************)
\* cleanup_manager.py, lines 91-94: the hook a CleanupManager registers with
\* atexit. handler.py creates no CleanupManager and registers nothing, so at
\* the exit of the worker the tracker sets are as the module left them.
ProcessExit ==
    /\ pc \in {"done", "failed"}
    /\ ~exited
    /\ exited' = TRUE
    /\ IF files_to_cleanup \cup directories_to_cleanup # {}
       THEN LET fs1 == AfterFiles(fs, files_to_cleanup)
            IN  /\ files_to_cleanup' =
                       {p \in files_to_cleanup : ~cleanup_file(fs, p)}
                /\ directories_to_cleanup' =
                       {p \in directories_to_cleanup : ~cleanup_directory(fs1, p)}
                /\ fs' = AfterDirectories(fs1, directories_to_cleanup)
       ELSE UNCHANGED <<files_to_cleanup, directories_to_cleanup, fs>>
    /\ UNCHANGED <<pc, task, image_keys, resolved, image_path, engine_up,
                   template_ok, http_attempt, attempt, connects, sleeps,
                   ws_connected, submits, prompt_id, nrecv, out,
                   history_fetched, videos, result, error>>
    /\ UNCHANGED <<svars, mvars, temp_created, uvars, pvars>>
    /\ UNCHANGED <<locked, last_step, cleanup_raised, cleanup_calls>>

(***************************************************************************)
(* Properties of handler(job)                                              *)
(***************************************************************************)
\* the poller phases of the request, in their order
PhaseRank(p) ==
    CASE p \in {"start", "load_workflow"} -> 0      \* INIT
      [] p = "http_probe" -> 1                      \* HTTP_PROBE
      [] p \in {"ws_connect", "ws_sleep"} -> 2      \* STREAM_CONNECT
      [] p = "submit" -> 3                          \* SUBMITTED
      [] p = "progress" -> 4                        \* progress events
      [] p \in {"history", "return", "done"} -> 5   \* DONE
      [] p = "failed" -> 6                          \* FAILED

\* C1: in the progress loop a received message moves the poller to DONE
\* exactly when it is a text message of type 'executing' with node = null and
\* the job id of this request's submission; every other message of the
\* engine (binary frame, other event type, non-null node, other job id)
\* leaves it in the loop, and DONE is entered from nowhere else.
C1_OnlySentinelLeavesLoop ==
    [][ /\ (pc = "progress" /\ nrecv' # nrecv /\ out' # MalformedText) =>
              /\ pc' \in {"progress", "history"}
              /\ (pc' = "history") <=>
                     /\ out'.frame = "text"
                     /\ out'.type = "executing"
                     /\ out'.node = "null"
                     /\ out'.prompt_id = prompt_id
        /\ (pc # "history" /\ pc' = "history") =>
              (pc = "progress" /\ nrecv' # nrecv)
      ]_vars

\* C1 witness: the loop ignored a message and then left on the sentinel
C1_Witness ==
    /\ pc = "history"
    /\ nrecv >= 2
    /\ out.prompt_id = prompt_id

\* C2: the phases occur in the order INIT, HTTP_PROBE, STREAM_CONNECT,
\* SUBMITTED, progress, DONE, with FAILED terminal; the graph is submitted
\* only after the stream connection succeeded, and the manifest is fetched
\* only after the sentinel of the submitted job was received.
C2_PhaseOrder ==
    /\ [][ IF pc = "failed"
           THEN pc' = "failed"
           ELSE \/ pc' = "failed"
                \/ PhaseRank(pc') = PhaseRank(pc)
                \/ PhaseRank(pc') = PhaseRank(pc) + 1 ]_vars
    /\ [](submits > 0 => ws_connected)
    /\ [](history_fetched =>
              /\ submits > 0
              /\ out.frame = "text"
              /\ out.type = "executing"
              /\ out.node = "null"
              /\ out.prompt_id = prompt_id)

\* C2 witness: a request that went through every phase
C2_Witness ==
    /\ pc = "done"
    /\ result = "success"
    /\ history_fetched
    /\ connects > 1

\* C3: at most 36 connect attempts are made, none after the first success,
\* a sleep follows exactly each failed attempt that has a successor, and when
\* all 36 fail the request ends in the connection error with nothing
\* submitted.
C3_BoundedStreamConnect ==
    /\ connects <= 36
    /\ ws_connected => (pc \notin {"ws_connect", "ws_sleep"} /\ sleeps = connects - 1)
    /\ pc = "ws_connect" => sleeps = connects
    /\ pc = "ws_sleep" => sleeps = connects - 1
    /\ (connects = 36 /\ ~ws_connected) =>
           /\ pc = "failed"
           /\ error = "ws_timeout"
           /\ sleeps = 35
    /\ ~ws_connected => submits = 0
    /\ error = "ws_timeout" => connects = 36

\* C3 witness: every attempt failed
C3_Witness ==
    /\ error = "ws_timeout"
    /\ connects = 36
    /\ engine_up

\* C4: the HTTP probe checks that the engine is reachable, with at most 180
\* attempts, and a request whose engine is unreachable never gets to
\* STREAM_CONNECT.
C4_ProbeGuardsConnect ==
    /\ http_attempt <= 180
    /\ ~engine_up => (PhaseRank(pc) \in {0, 1, 6} /\ connects = 0)

\* C5: the graph is submitted at most once; a stream error in the progress
\* loop ends the request in failure, and a failed request neither
\* reconnects, resubmits nor fetches the manifest.
C5_SubmitOnce ==
    /\ [](submits <= 1)
    /\ [](error = "stream_error" =>
              /\ pc = "failed"
              /\ submits = 1
              /\ ~history_fetched
              /\ result = None)
    /\ [][ pc = "failed" =>
              /\ pc' = "failed"
              /\ connects' = connects
              /\ submits' = submits
              /\ history_fetched' = history_fetched ]_vars

\* C5 witness: the stream broke after the submission, in the progress loop
C5_Witness ==
    /\ error = "stream_error"
    /\ submits = 1
    /\ nrecv >= 1

\* the input type that belongs to a request key
TypeOfKey(k) ==
    CASE k = "image_path" -> "path"
      [] k = "image_url" -> "url"
      [] k = "image_base64" -> "base64"

\* C6: an image-to-video request with exactly one of image_path, image_url,
\* image_base64 is accepted and resolves that source alone; with none or with
\* two or more it fails and resolves nothing.
C6_ExactlyOneSource ==
    (task = "i2v" /\ pc # "start") =>
        IF Cardinality(image_keys) = 1
        THEN /\ resolved = {TypeOfKey(k) : k \in image_keys}
             /\ error # "no_image_source"
        ELSE /\ pc = "failed"
             /\ resolved = {}

\* C11: every temporary file or directory the request created while
\* resolving the image source is registered with the tracker for as long as
\* it is on disk, and none is left on disk once the worker has exited.
C11_TempFilesRemoved ==
    /\ \A p \in temp_created :
           fs[p] # "absent" => p \in files_to_cleanup \cup directories_to_cleanup
    /\ exited => \A p \in temp_created : fs[p] = "absent"

\* C12: once a video was produced, storage settings and link minting never
\* fail the request: with a setting missing nothing is uploaded and the
\* success result has no download_url; with all four present and the upload
\* done, it carries the presigned URL, or the direct URL when presigning
\* failed.
C12_ShippingNeverFails ==
    (videos = "video" /\ pc \in {"done", "failed"} /\ error # "upload_error") =>
        /\ pc = "done"
        /\ result = "success"
        /\ IF r2_env # R2Keys
           THEN uploads = 0 /\ download_url = None
           ELSE /\ uploads = 1
                /\ download_url = IF presign_ok THEN "presigned_url" ELSE "direct_url"

\* C13: when the manifest of a finished job holds no video under any output
\* node, or lacks the output fields, the request ends in an error: the error
\* result or an exception, never status = success, and nothing is uploaded.
C13_NoVideoIsError ==
    (history_fetched /\ manifest \in Manifests \ {"video"}) =>
        /\ result # "success"
        /\ uploads = 0
        /\ download_url = None
        /\ pc \in {"return", "done", "failed"}
        /\ pc = "done" => result = "error_not_found"
        /\ pc = "failed" => error = "missing_output_fields"

\* C13 witness: the job finished, its output nodes held no video, and the
\* handler returned the error result
C13_Witness ==
    /\ pc = "done"
    /\ manifest = "no_gifs"
    /\ result = "error_not_found"
    /\ uploads = 0

\* the completion sentinel of the submitted job is on the stream, not yet read
SentinelInFlight == pc = "progress" /\ IsSentinel(inflight, prompt_id)
\* ws.recv() raised, or the frame it returned could not be decoded
StreamFailed == pc = "failed" /\ error \in {"stream_error", "message_error"}

\* a step that leaves the progress loop reads the sentinel of the submitted
\* job or is an exception of the stream; no other step (no deadline) ends it
ProgressLoopExit ==
    (pc = "progress" /\ pc' # "progress") =>
        \/ /\ IsSentinel(inflight, prompt_id)
           /\ out' = inflight
           /\ pc' = "history"
        \/ /\ pc' = "failed"
           /\ error' \in {"stream_error", "message_error"}

\* C15 as stated: the progress loop ends only by the matching sentinel or a
\* stream error, and once the engine has emitted the sentinel of the
\* submitted job the handler, the stream not failing, returns a result.
C15_SentinelLeadsToResult ==
    /\ [][ProgressLoopExit]_vars
    /\ SentinelInFlight ~> ((pc = "done" /\ result # None) \/ StreamFailed)

\* C15 as the code has it: the progress loop ends only by reading the
\* sentinel of the submitted job or by an exception of the stream, and
\* nothing else (no deadline) takes the handler out of it; with fair message
\* delivery an emitted sentinel takes the handler to DONE unless the stream
\* fails first, and from DONE the handler returns a result or ends with the
\* exception of the manifest lookup or of the upload.
C15_SentinelEndsLoop ==
    /\ [][ProgressLoopExit]_vars
    /\ SentinelInFlight ~> (pc = "history" \/ StreamFailed)
    /\ (pc = "history") ~>
           \/ pc = "done" /\ result # None
           \/ pc = "failed" /\ error \in {"history_error", "missing_output_fields",
                                          "expiry_not_a_number", "upload_error"}

\* C15 witness: the sentinel of the submitted job was read and the handler
\* returned its result
C15_Witness ==
    /\ pc = "done"
    /\ IsSentinel(out, prompt_id)
    /\ result = "success"

(***************************************************************************)
(* Properties of the pure functions                                        *)
(***************************************************************************)
Called == ret # NotCalled

\* the value is a whole number (an int, or a float without a fraction)
IsInteger(x) == x.kind = "num" /\ x.num % x.den = 0
IntegerOf(x) == x.num \div x.den

\* C7: for integer values, validate_num_frames is valid exactly on [1, 300]
\* and validate_steps exactly on [1, 50]; a value outside the range gives
\* valid = false with an error, and an accepted value (the boundaries 1, 300
\* and 1, 50 among them) is returned unchanged.
C7_ClosedRanges ==
    (Called /\ call.fn \in {"validate_num_frames", "validate_steps"}
            /\ IsInteger(call.a)) =>
        LET v == IntegerOf(call.a)
            hi == IF call.fn = "validate_num_frames" THEN 300 ELSE 50
        IN  /\ ret.valid <=> (1 <= v /\ v <= hi)
            /\ ret.valid => ("value" \in DOMAIN ret /\ ret.value = v /\ ret.errors = <<>>)
            /\ ~ret.valid => (Len(ret.errors) > 0 /\ "value" \notin DOMAIN ret)
            /\ v \in {1, hi} => ret.valid

\* C7 witness: the upper boundary of num_frames was validated and accepted
C7_Witness ==
    /\ Called
    /\ call.fn = "validate_num_frames"
    /\ call.a = PyInt(300)
    /\ ret.valid
    /\ ret.value = 300

\* C8 as stated: validate_resolution accepts every integer pair, returning an
\* allowed pair unchanged and coercing any other pair to the default
\* 1280x704 with a warning and no error.
C8_NeverRejects ==
    (Called /\ call.fn = "validate_resolution"
            /\ IsInteger(call.a) /\ IsInteger(call.b)) =>
        /\ ret.valid
        /\ ret.errors = <<>>
        /\ IF <<IntegerOf(call.a), IntegerOf(call.b)>> \in {<<1280, 704>>, <<704, 1280>>}
           THEN ret.width = IntegerOf(call.a) /\ ret.height = IntegerOf(call.b)
           ELSE ret.width = 1280 /\ ret.height = 704 /\ Len(ret.warnings) > 0

\* C8 amended: validate_resolution returns an integer pair of the allowed set
\* {1280x704, 704x1280} unchanged with valid = true, and rejects every other
\* integer pair: valid = false with one error, no warning and no width or
\* height in the result.
C8_RejectsUnsupported ==
    (Called /\ call.fn = "validate_resolution"
            /\ IsInteger(call.a) /\ IsInteger(call.b)) =>
        IF <<IntegerOf(call.a), IntegerOf(call.b)>> \in {<<1280, 704>>, <<704, 1280>>}
        THEN /\ ret.valid
             /\ ret.errors = <<>>
             /\ ret.width = IntegerOf(call.a)
             /\ ret.height = IntegerOf(call.b)
        ELSE /\ ~ret.valid
             /\ Len(ret.errors) = 1
             /\ ret.warnings = <<>>
             /\ DOMAIN ret = {"valid", "errors", "warnings"}

\* C8 witness: a pair outside the allowed set was validated and rejected
C8_Witness ==
    /\ Called
    /\ call.fn = "validate_resolution"
    /\ call.a = PyInt(480)
    /\ call.b = PyInt(832)
    /\ ~ret.valid

\* what the rounding must satisfy on a whole number v with result r
RoundedRight(v, r) ==
    /\ r % 16 = 0
    /\ r >= 16
    /\ to_nearest_multiple_of_16(PyInt(r)) = r
    /\ (v > 0 /\ v % 16 = 0) => r = v
    /\ v <= 0 => r = 16

\* C9: on integer inputs to_nearest_multiple_of_16 gives a multiple of 16
\* that is at least 16, gives the same again when applied to its result,
\* returns a positive multiple of 16 unchanged and turns 0 and every negative
\* value into 16.
C9_RoundingIdempotent ==
    (Called /\ call.fn = "adjust_resolution"
            /\ IsInteger(call.a) /\ IsInteger(call.b)) =>
        /\ RoundedRight(IntegerOf(call.a), ret.adjusted_width)
        /\ RoundedRight(IntegerOf(call.b), ret.adjusted_height)

\* C9 witness: a multiple of 16 and a negative value were rounded
C9_Witness ==
    /\ Called
    /\ call.fn = "adjust_resolution"
    /\ call.a = PyInt(32)
    /\ call.b = PyInt(-5)
    /\ ret.adjusted_width = 32
    /\ ret.adjusted_height = 16

\* the workflow was patched: call.a is job_input, call.b.graph the template
\* and ret.graph the graph that is submitted
PatchCalled == Called /\ call.fn = "apply_parameters"

OptionalFields ==
    {"seed", "cfg", "num_frames", "width", "height", "context_overlap",
     "steps", "lora_pairs"}
LoraKeys ==
    {high_lora_node_id, low_lora_node_id}
        \X ({LoraField(i) : i \in LoraSlots} \cup {StrengthField(i) : i \in LoraSlots})
\* the node inputs an optional request field corresponds to
NodeFieldsOf(field) ==
    CASE field = "seed" -> {<<"220", "seed">>, <<"540", "seed">>}
      [] field = "cfg" -> {<<"540", "cfg">>}
      [] field = "num_frames" -> {<<"541", "num_frames">>}
      [] field = "width" -> {<<"235", "value">>}
      [] field = "height" -> {<<"236", "value">>}
      [] field = "context_overlap" -> {<<"498", "context_overlap">>}
      [] field = "steps" -> {<<"834", "steps">>, <<"829", "step">>}
      [] field = "lora_pairs" -> LoraKeys

\* C14 as stated: every optional request field that is omitted (seed, cfg,
\* num_frames, width, height, context_overlap, steps, lora_pairs) leaves its
\* node inputs at the value they have in the template.
C14_OmittedKeepsTemplate ==
    PatchCalled =>
        \A field \in OptionalFields :
            ~call.a[field].present =>
                \A k \in NodeFieldsOf(field) \cap DOMAIN call.b.graph :
                    ret.graph[k] = call.b.graph[k]

\* C14 as the code has it: an omitted seed, cfg, num_frames, width, height or
\* context_overlap is overwritten with the handler's own default (42, 2.0,
\* 81, 480, 832, 48), an omitted steps with 10 and the low step count with 6
\* when the template has node 834; a supplied field is written (the
\* dimensions rounded to a multiple of 16); only an omitted lora_pairs, the
\* step inputs of a template without node 834, the image of a request that
\* has none, and the inputs the parameters do not name stay at the
\* template's values, and no node input is added or removed.
C14_OmittedTakesHandlerDefault ==
    PatchCalled =>
        LET t == call.b.graph
            g == ret.graph
            j == call.a
        IN  /\ DOMAIN g = DOMAIN t
            /\ g[<<"220", "seed">>] = (IF j.seed.present THEN j.seed.v ELSE 42)
            /\ g[<<"540", "seed">>] = g[<<"220", "seed">>]
            /\ g[<<"540", "cfg">>] = (IF j.cfg.present THEN j.cfg.v ELSE 20)
            /\ g[<<"541", "num_frames">>] =
                   (IF j.num_frames.present THEN j.num_frames.v ELSE 81)
            /\ g[<<"498", "context_overlap">>] =
                   (IF j.context_overlap.present THEN j.context_overlap.v ELSE 48)
            /\ g[<<"235", "value">>] =
                   (IF j.width.present
                    THEN to_nearest_multiple_of_16(j.width.v) ELSE 480)
            /\ g[<<"236", "value">>] =
                   (IF j.height.present
                    THEN to_nearest_multiple_of_16(j.height.v) ELSE 832)
            /\ IF HasNode(t, "834")
               THEN /\ g[<<"834", "steps">>] =
                           (IF j.steps.present THEN j.steps.v ELSE 10)
                    /\ g[<<"829", "step">>] =
                           (IF j.steps.present THEN LowSteps(j.steps.v) ELSE 6)
               ELSE g[<<"829", "step">>] = t[<<"829", "step">>]
            /\ ~j.lora_pairs.present => \A k \in LoraKeys : g[k] = t[k]
            /\ ~j.image.present => g[<<"244", "image">>] = t[<<"244", "image">>]
            /\ g[<<"540", "sampler_name">>] = t[<<"540", "sampler_name">>]

\* C14 witness: a request without a seed was applied to a template whose
\* seed is not the handler's default, and the graph holds 42
C14_Witness ==
    /\ PatchCalled
    /\ ~call.a.seed.present
    /\ call.b.graph[<<"220", "seed">>] = 1
    /\ ret.graph[<<"220", "seed">>] = 42
    /\ ret.graph[<<"540", "seed">>] = 42

(***************************************************************************)
(* Properties of the CleanupManager                                        *)
(***************************************************************************)
\* C10 as stated: cleanup_all raises nothing and leaves both pending counts
\* at zero, whatever the tracker held.
C10_PendingZeroAfterCleanup ==
    last_step = "cleanup_all" =>
        /\ ~cleanup_raised
        /\ Cardinality(files_to_cleanup) = 0
        /\ Cardinality(directories_to_cleanup) = 0

\* C10 amended: cleanup_all raises nothing, and after it the only entries
\* still pending are those whose removal failed: an existing file or
\* directory that could not be removed. When no removal failed both pending
\* counts are zero, and a second cleanup_all made right after the first
\* changes neither the pending sets nor the file system.
C10_CleanupIdempotent ==
    /\ [](last_step = "cleanup_all" =>
              /\ ~cleanup_raised
              /\ \A p \in files_to_cleanup : fs[p] = "file" /\ p \in locked
              /\ \A p \in directories_to_cleanup : fs[p] = "dir" /\ p \in locked
              /\ locked = {} => (files_to_cleanup = {} /\ directories_to_cleanup = {}))
    /\ [][ (last_step = "cleanup_all" /\ cleanup_calls' = cleanup_calls + 1) =>
              /\ ~cleanup_raised'
              /\ UNCHANGED <<files_to_cleanup, directories_to_cleanup, fs>> ]_vars

\* C10 witness: two calls were made; the first emptied the file set and left
\* a directory whose removal failed
C10_Witness ==
    /\ last_step = "cleanup_all"
    /\ cleanup_calls = 2
    /\ files_to_cleanup = {}
    /\ directories_to_cleanup # {}
    /\ \E p \in ResolvedPaths : fs[p] = "absent"

(***************************************************************************)
(* Specifications                                                          *)
(***************************************************************************)
PureIdle ==
    /\ call = NoCall
    /\ ret = NotCalled

CleanupIdle ==
    /\ files_to_cleanup = {}
    /\ directories_to_cleanup = {}
    /\ fs = [p \in ResolvedPaths |-> "absent"]
    /\ locked = {}
    /\ last_step = None
    /\ cleanup_raised = FALSE
    /\ cleanup_calls = 0

HandlerIdle ==
    /\ pc = None
    /\ task = None
    /\ image_keys = {}
    /\ resolved = {}
    /\ image_path = None
    /\ engine_up = FALSE
    /\ template_ok = FALSE
    /\ http_attempt = 0
    /\ attempt = 0
    /\ connects = 0
    /\ sleeps = 0
    /\ ws_connected = FALSE
    /\ submits = 0
    /\ prompt_id = None
    /\ nrecv = 0
    /\ out = NoMessage
    /\ history_fetched = FALSE
    /\ videos = None
    /\ result = None
    /\ error = None
    /\ inflight = NoMessage
    /\ manifest = None
    /\ temp_created = {}
    /\ exited = FALSE
    /\ r2_env = {}
    /\ expiry_ok = TRUE
    /\ presign_ok = FALSE
    /\ uploads = 0
    /\ download_url = None

Init ==
    /\ HandlerInit
    /\ PureIdle
    /\ CleanupIdle

Next ==
    \/ HandlerNext
    \/ ProcessExit

Spec == Init /\ [][Next]_vars

InitPure ==
    /\ HandlerIdle
    /\ PureInit
    /\ CleanupIdle

NextPure == PureNext

SpecPure == InitPure /\ [][NextPure]_vars

InitCleanup ==
    /\ HandlerIdle
    /\ PureIdle
    /\ CleanupInit

NextCleanup == CleanupNext

SpecCleanup == InitCleanup /\ [][NextCleanup]_vars

\* the steps of handler(job) itself: the interpreter runs the next statement
\* whenever it can, and ws.recv() returns a message that is on the stream;
\* what the engine sends and whether the stream breaks is left open
HandlerStep ==
    \/ ResolveInput
    \/ LoadWorkflow
    \/ HttpProbe
    \/ WsConnect
    \/ WsSleep
    \/ QueuePrompt
    \/ Recv
    \/ GetHistory
    \/ Return

SpecLive == Init /\ [][Next]_vars /\ WF_vars(HandlerStep)

=============================================================================
